---- MODULE Spec2Model ----
(***************************************************************************)
(* Ordered parallel frame-analysis pipelines of integration/visual_test:   *)
(*   - analyze_optical_flow.py : cli -> process_all_frames ->              *)
(*     compute_accelerations  (mode "flow", one unit per frame pair)       *)
(*   - main.py : main -> process_image units -> compute_deltas -> alerts   *)
(*     -> plot_graphs (mode "density", one unit per frame)                 *)
(* Python lists are 0-based; sequences here are 1-based, so the Python     *)
(* element results[i] is results[i + 1] below.  Loop counters keep their   *)
(* Python values.                                                          *)
(***************************************************************************)
EXTENDS Integers, Sequences, FiniteSets, TLC

\* ------------------------------------------------------------------ bounds
\* Largest number of input files in the directory.
MaxFrames == 3
\* Largest --workers value tried (0 stands for None).
MaxWorkersOpt == 2
\* os.cpu_count() / multiprocessing.cpu_count() of the modelled host.
NumCores == 2
\* Largest number of input files in the aggregation runs on all Images.
MaxResults == 3
\* Longest speed series handed to compute_accelerations on its own.
MaxSpeeds == 4
\* Longest event-count series handed to the cross-correlation.
MaxLen == 3
\* Largest per-frame event count (num_circles, num_lines).
MaxCount == 2

\* ------------------------------------------------------- program constants
PARTICLE_DENSITY_MIN == 5000
PARTICLE_DENSITY_MAX == 100000
\* DELTA_MAX = 10.0
DELTA_MAX == 10
\* tolerance of compute_deltas on each axis, in pixels
DIM_TOLERANCE == 50
\* img.convert("RGB"): img_data has shape (h, w, 3)
NChan == 3

VARIABLES
    mode,        \* "flow" (analyze_optical_flow.py) or "density" (main.py)
    nframes,     \* number of files matched by the glob, sorted
    max_workers, \* cfg.max_workers, 0 for None (flow only)
    pc,          \* position of the main process
    futures,     \* futures in submission order: [idx, arg, state, value]
    yielded,     \* positions of the futures as_completed has yielded, in order
    results,     \* the results list
    completed,   \* the progress counter of process_all_frames
    log,         \* failure reports, in emission order
    fatal,       \* exception that ended the run, "none" otherwise
    deltas,      \* compute_deltas: the deltas list (numerators over NChan)
    i,           \* loop counter of compute_deltas / of the alert loop
    warnings,    \* compute_deltas: the printed dimension-mismatch warnings
    rockets,     \* plot_graphs: lines-per-frame series
    explosions,  \* plot_graphs: circles-per-frame series
    corr,        \* plot_graphs: np.correlate(..., mode="full"), scaled by n^2
    lags,        \* plot_graphs: np.arange(-len(rockets) + 1, len(rockets))
    best_lag,    \* plot_graphs: lags[np.argmax(corr)]
    fps,         \* cfg.fps (flow only)
    exit_code    \* process exit code, -1 while running

vars == <<mode, nframes, max_workers, pc, futures, yielded, results, completed,
          log, fatal, deltas, i, warnings, rockets, explosions, corr, lags,
          best_lag, fps, exit_code>>

\* ------------------------------------------------------------ small helpers
Abs(x) == IF x < 0 THEN -x ELSE x

Max2(a, b) == IF a > b THEN a ELSE b

Range(s) == {s[k] : k \in 1..Len(s)}

RECURSIVE SumSeq(_)
SumSeq(s) == IF s = <<>> THEN 0 ELSE Head(s) + SumSeq(Tail(s))

\* ---------------------------------------------------------------- the data
\* An image is modelled with its height, its width and one RGB colour shared
\* by all its pixels: img_data is the (h, w, NChan) array holding rgb at
\* every pixel.
Img(h, w, rgb) == [h |-> h, w |-> w, rgb |-> rgb]

Shapes == {<<1, 100>>, <<50, 60>>, <<50, 100>>, <<125, 400>>, <<250, 400>>, <<251, 400>>}

Colors == {<<0, 0, 0>>, <<30, 0, 0>>, <<20, 10, 10>>}

\* Images the aggregation is exercised on.
Images == {Img(sh[1], sh[2], c) : sh \in Shapes, c \in Colors}

\* mask = img_data.max(axis=2) > 0 ; density = np.count_nonzero(mask)
Density(img) ==
    IF Max2(img.rgb[1], Max2(img.rgb[2], img.rgb[3])) > 0 THEN img.h * img.w ELSE 0

\* Widths of the zero-padded index in the artifact names: {index:03d} and
\* {idx:02d}.
ANNOTATED_PAD == 3
HEATMAP_PAD == 2
EF_PAD == 2

\* The decimal digits of n >= 0, most significant first.
RECURSIVE Digits(_)
Digits(n) == IF n < 10 THEN <<n>> ELSE Digits(n \div 10) \o <<n % 10>>

\* FormatD with the number cut to its last `width` digits.
FormatDFixedWidth(n, width) ==
    LET d == [k \in 1..width |-> 0] \o Digits(n)
    IN SubSeq(d, Len(d) - width + 1, Len(d))

\* format(n, "0<width>d"): the digits of n, padded with zeros on the left up
\* to width; a longer number keeps all its digits.
FormatD(n, width) ==
    LET d == Digits(n)
    IN IF Len(d) >= width THEN d ELSE [k \in 1..(width - Len(d)) |-> 0] \o d

\* A file name <stem><digits>.png
PngName(stem, digits) == [stem |-> stem, digits |-> digits]

\* f"annotated_{index:03d}.png" in the annotated directory
AnnotatedPath(index) == PngName("annotated_", FormatD(index, ANNOTATED_PAD))

\* f"heatmap_{idx:02d}.png" in the heatmaps directory
HeatmapPath(idx) == PngName("heatmap_", FormatD(idx, HEATMAP_PAD))

\* f"ef_{idx:02d}.png" in the explosions_fusees directory
EfPath(idx) == PngName("ef_", FormatD(idx, EF_PAD))

\* The dict returned by process_image for unit idx on file number path
\* (0-based position in the sorted screenshots list), the decoded image being
\* img and the Hough detections counting nc circles and nl lines.
ProcessImageResult(idx, path, img, nc, nl) ==
    [idx |-> idx, screenshot |-> path, density |-> Density(img), img_data |-> img,
     heatmap |-> HeatmapPath(idx), explosions_fusees |-> EfPath(idx),
     num_circles |-> nc, num_lines |-> nl]

\* What a process_image worker can decode in the pipeline runs: an image and
\* its detection counts.
UnitPayloads ==
    { [img |-> Img(50, 60, <<20, 10, 10>>),  nc |-> 0, nl |-> 0],
      [img |-> Img(50, 100, <<30, 0, 0>>),   nc |-> 1, nl |-> 0],
      [img |-> Img(50, 100, <<20, 10, 10>>), nc |-> 0, nl |-> 1],
      [img |-> Img(125, 400, <<0, 0, 0>>),   nc |-> 1, nl |-> 1] }

\* Mean speeds (in hundredths of px/frame) a flow worker can return.
Speeds == {0, 5, 20}

\* Frame rates (fps > 0).
FrameRates == {1, 60}

\* A worker returning the position of its current frame as index.
FlowResultOfCurr(args, speed) ==
    [index |-> args.curr, speed |-> speed, annotated_path |-> AnnotatedPath(args.curr)]

\* (index, speed, angle_deg, annotated_path) returned by
\* compute_flow_and_annotate for args = (index, prev_path, curr_path, ...).
FlowResult(args, speed) ==
    [index |-> args.index, speed |-> speed, annotated_path |-> AnnotatedPath(args.index)]

\* The pairs taken one frame late: (1,2), (2,3), ...
TasksArgsShifted(n) == [k \in 1..(n - 1) |-> [index |-> k - 1, prev |-> k, curr |-> k + 1]]

\* tasks_args of process_all_frames: pairs (0,1), (1,2), ... of positions in
\* the sorted paths list.
TasksArgs(n) == [k \in 1..(n - 1) |-> [index |-> k - 1, prev |-> k - 1, curr |-> k]]

\* enumerate(screenshots, start=1) of main: (idx, path).
Enumerated(n) == [k \in 1..n |-> [idx |-> k, path |-> k - 1]]

\* A pool always sized by the number of cores, the --workers option ignored.
PoolSizeOfCores == NumCores

\* max_workers = cfg.max_workers or multiprocessing.cpu_count() ; MAX_WORKERS
PoolSize ==
    IF mode = "flow"
    THEN (IF max_workers # 0 THEN max_workers ELSE NumCores)
    ELSE NumCores

\* results.sort(key=...) : stable insertion into index order.
KeyOf(r) == IF "index" \in DOMAIN r THEN r.index ELSE r.idx

RECURSIVE InsertSorted(_, _)
InsertSorted(r, s) ==
    IF s = <<>> THEN <<r>>
    ELSE IF KeyOf(r) < KeyOf(Head(s)) THEN <<r>> \o s
    ELSE <<Head(s)>> \o InsertSorted(r, Tail(s))

\* The results left in collection order (the sort step omitted).
SortOmitted(s) == s

RECURSIVE SortByIndex(_)
SortByIndex(s) ==
    IF s = <<>> THEN <<>>
    ELSE InsertSorted(s[Len(s)], SortByIndex(SubSeq(s, 1, Len(s) - 1)))


\* ------------------------------------------------------------ initial state
Init ==
    /\ mode \in {"flow", "density"}
    /\ nframes \in 0..MaxFrames
    /\ max_workers \in (IF mode = "flow" THEN 0..MaxWorkersOpt ELSE {0})
    /\ fps \in (IF mode = "flow" THEN FrameRates ELSE {0})
    /\ pc = "start"
    /\ futures = <<>>
    /\ yielded = <<>>
    /\ results = <<>>
    /\ completed = 0
    /\ log = <<>>
    /\ fatal = "none"
    /\ deltas = <<>>
    /\ i = 0
    /\ warnings = <<>>
    /\ rockets = <<>>
    /\ explosions = <<>>
    /\ corr = <<>>
    /\ lags = <<>>
    /\ best_lag = 0
    /\ exit_code = -1

aggVars == <<deltas, i, warnings, rockets, explosions, corr, lags, best_lag>>
cfgVars == <<mode, nframes, max_workers, fps>>

\* An uncaught exception named exc ends the process.
Crash(exc) ==
    /\ pc' = "fatal"
    /\ fatal' = exc
    /\ exit_code' = 1

\* --------------------------------------------------- the worker pool
Unfinished == {k \in 1..Len(futures) : futures[k].state # "finished"}

Running == {k \in 1..Len(futures) : futures[k].state = "running"}

\* exe.submit(fn, arg) : a new pending future; key is the value the
\* dispatcher's dict records for it.
NewFuture(key, arg) ==
    [key |-> key, arg |-> arg, state |-> "pending", outcome |-> "none", value |-> <<>>]

\* A free pool process takes a pending work item.
WorkerStart(k) ==
    /\ k \in 1..Len(futures)
    /\ futures[k].state = "pending"
    /\ Cardinality(Running) < PoolSize
    /\ futures' = [futures EXCEPT ![k].state = "running"]
    /\ UNCHANGED <<cfgVars, pc, yielded, results, completed, log, fatal, aggVars, exit_code>>

\* What the worker function of the run returns for the arguments arg.
WorkerValues(arg) ==
    IF mode = "flow"
    THEN {FlowResult(arg, sp) : sp \in Speeds}
    ELSE {ProcessImageResult(arg.idx, arg.path, p.img, p.nc, p.nl) : p \in UnitPayloads}

\* The worker function returns: the future holds its value.
WorkerReturn(k) ==
    /\ k \in 1..Len(futures)
    /\ futures[k].state = "running"
    /\ \E v \in WorkerValues(futures[k].arg) :
          futures' = [futures EXCEPT ![k].state = "finished",
                                     ![k].outcome = "ok",
                                     ![k].value = v]
    /\ UNCHANGED <<cfgVars, pc, yielded, results, completed, log, fatal, aggVars, exit_code>>

\* The worker function raises (a frame cannot be read): the future holds the
\* exception.
WorkerRaise(k) ==
    /\ k \in 1..Len(futures)
    /\ futures[k].state = "running"
    /\ futures' = [futures EXCEPT ![k].state = "finished", ![k].outcome = "exc"]
    /\ UNCHANGED <<cfgVars, pc, yielded, results, completed, log, fatal, aggVars, exit_code>>


\* --------------------------------- analyze_optical_flow.py : the dispatcher
\* FlowListFrames without the n < 2 test.
FlowListFramesNoPairTest ==
    /\ pc = "start"
    /\ mode = "flow"
    /\ IF nframes = 0 THEN Crash("FileNotFoundError")
       ELSE pc' = "submit" /\ UNCHANGED <<fatal, exit_code>>
    /\ UNCHANGED <<cfgVars, futures, yielded, results, completed, log, aggVars>>

\* list_input_frames and the n < 2 test of process_all_frames.
FlowListFrames ==
    /\ pc = "start"
    /\ mode = "flow"
    /\ IF nframes = 0 THEN Crash("FileNotFoundError")
       ELSE IF nframes < 2 THEN Crash("RuntimeError")
       ELSE pc' = "submit" /\ UNCHANGED <<fatal, exit_code>>
    /\ UNCHANGED <<cfgVars, futures, yielded, results, completed, log, aggVars>>

\* FlowSubmit holding each submission back until the futures submitted before
\* it are finished.
FlowSubmitAfterPrevious ==
    /\ pc = "submit"
    /\ mode = "flow"
    /\ \A j \in 1..Len(futures) : futures[j].state = "finished"
    /\ LET tasks == TasksArgs(nframes)
           k == Len(futures) + 1
       IN /\ k <= Len(tasks)
          /\ futures' = Append(futures, NewFuture(tasks[k].index, tasks[k]))
          /\ pc' = IF k = Len(tasks) THEN "collect" ELSE "submit"
    /\ UNCHANGED <<cfgVars, yielded, results, completed, log, fatal, aggVars, exit_code>>

\* One exe.submit of the dict comprehension building future_to_idx.
FlowSubmit ==
    /\ pc = "submit"
    /\ mode = "flow"
    /\ LET tasks == TasksArgs(nframes)
           k == Len(futures) + 1
       IN /\ k <= Len(tasks)
          /\ futures' = Append(futures, NewFuture(tasks[k].index, tasks[k]))
          /\ pc' = IF k = Len(tasks) THEN "collect" ELSE "submit"
    /\ UNCHANGED <<cfgVars, yielded, results, completed, log, fatal, aggVars, exit_code>>

\* FramePairResult(index, speed, ...) with accel = None (the empty sequence).
FramePairResult(index, speed, annotated_path) ==
    [index |-> index, speed |-> speed, accel |-> <<>>, annotated_path |-> annotated_path]

\* logger.exception("Worker failed for index %s: %s", idx, exc)
FlowFailureReport(idx) == [msg |-> "Worker failed for index", index |-> idx]

\* FlowCollect submitting the unit of a failed future again instead of
\* raising.
FlowCollectRetrying(k) ==
    /\ pc = "collect"
    /\ mode = "flow"
    /\ k \in 1..Len(futures)
    /\ k \notin Range(yielded)
    /\ futures[k].state = "finished"
    /\ yielded' = Append(yielded, k)
    /\ IF futures[k].outcome = "ok"
       THEN /\ results' = Append(results,
                  FramePairResult(futures[k].value.index, futures[k].value.speed,
                                  futures[k].value.annotated_path))
            /\ completed' = completed + 1
            /\ UNCHANGED <<log, futures>>
       ELSE /\ log' = Append(log, FlowFailureReport(futures[k].key))
            /\ futures' = Append(futures, NewFuture(futures[k].key, futures[k].arg))
            /\ UNCHANGED <<results, completed>>
    /\ UNCHANGED <<cfgVars, pc, fatal, aggVars, exit_code>>

\* One iteration of `for fut in as_completed(future_to_idx)`.
FlowCollect(k) ==
    /\ pc = "collect"
    /\ mode = "flow"
    /\ k \in 1..Len(futures)
    /\ k \notin Range(yielded)
    /\ futures[k].state = "finished"
    /\ yielded' = Append(yielded, k)
    /\ LET idx == futures[k].key
       IN IF futures[k].outcome = "ok"
          THEN /\ results' = Append(results,
                     FramePairResult(futures[k].value.index, futures[k].value.speed,
                                     futures[k].value.annotated_path))
               /\ completed' = completed + 1
               /\ UNCHANGED <<log, pc>>
          ELSE /\ log' = Append(log, FlowFailureReport(idx))
               /\ pc' = "raising"
               /\ UNCHANGED <<results, completed>>
    /\ UNCHANGED <<cfgVars, futures, fatal, aggVars, exit_code>>

\* as_completed is exhausted; the with block ends (every future is finished).
FlowEndCollect ==
    /\ pc = "collect"
    /\ mode = "flow"
    /\ Range(yielded) = 1..Len(futures)
    /\ pc' = "sort"
    /\ UNCHANGED <<cfgVars, futures, yielded, results, completed, log, fatal, aggVars, exit_code>>

\* The re-raised exception leaves the with block: the executor's __exit__ is
\* shutdown(wait=True), which returns once every submitted future is
\* finished; then the exception reaches cli and ends the process.
FlowPoolShutdown ==
    /\ pc = "raising"
    /\ Unfinished = {}
    /\ Crash("WorkerError")
    /\ UNCHANGED <<cfgVars, futures, yielded, results, completed, log, aggVars>>

\* results.sort(key=lambda r: r.index) ; return results
FlowSort ==
    /\ pc = "sort"
    /\ mode = "flow"
    /\ results' = SortByIndex(results)
    /\ pc' = "accel"
    /\ UNCHANGED <<cfgVars, futures, yielded, completed, log, fatal, aggVars, exit_code>>

\* Gradient2 with the forward difference at the interior points too.
Gradient2Forward(s, k) ==
    IF k = Len(s) THEN 2 * (s[k] - s[k - 1])
    ELSE 2 * (s[k + 1] - s[k])

\* np.gradient(speeds)[k - 1], doubled: one-sided differences at both ends,
\* the central difference inside.
Gradient2(s, k) ==
    IF k = 1 THEN 2 * (s[2] - s[1])
    ELSE IF k = Len(s) THEN 2 * (s[k] - s[k - 1])
    ELSE s[k + 1] - s[k - 1]

\* Accelerations2 scaling the speeds themselves (the gradient left out).
AccelerationsOfSpeeds(speeds, rate) == [k \in 1..Len(speeds) |-> 2 * speeds[k] * rate]

\* accel values of compute_accelerations, as numerators over 2.
Accelerations2(speeds, rate) ==
    IF Len(speeds) < 2 THEN [k \in 1..Len(speeds) |-> 0]
    ELSE [k \in 1..Len(speeds) |-> Gradient2(speeds, k) * rate]

\* compute_accelerations(results, cfg.fps)
ComputeAccelerations ==
    /\ pc = "accel"
    /\ LET speeds == [k \in 1..Len(results) |-> results[k].speed]
           acc == Accelerations2(speeds, fps)
       IN results' = [k \in 1..Len(results) |-> [results[k] EXCEPT !.accel = <<acc[k]>>]]
    /\ pc' = "summary"
    /\ UNCHANGED <<cfgVars, futures, yielded, completed, log, fatal, aggVars, exit_code>>

\* mean_speed < 0.1, speeds being hundredths of px/frame
MIN_MEAN_SPEED == 10

\* ExitCodeFor failing also when the mean speed equals the threshold.
ExitCodeForInclusive(speeds) ==
    IF Len(speeds) = 0 THEN 1
    ELSE IF SumSeq(speeds) <= MIN_MEAN_SPEED * Len(speeds) THEN 1 ELSE 0

\* The exit code of cli: 1 when the mean speed is too small, else 0.
ExitCodeFor(speeds) ==
    IF Len(speeds) = 0 THEN 1
    ELSE IF SumSeq(speeds) < MIN_MEAN_SPEED * Len(speeds) THEN 1 ELSE 0

\* The final summary of cli and its typer.Exit.
CliExit ==
    /\ pc = "summary"
    /\ exit_code' = ExitCodeFor([k \in 1..Len(results) |-> results[k].speed])
    /\ pc' = "exited"
    /\ UNCHANGED <<cfgVars, futures, yielded, results, completed, log, fatal, aggVars>>


\* ------------------------------------------------- main.py : the dispatcher
\* sorted(glob("*.png")) and the `if not screenshots` exit of main.
MainListFrames ==
    /\ pc = "start"
    /\ mode = "density"
    /\ IF nframes = 0 THEN Crash("SystemExit")
       ELSE pc' = "submit" /\ UNCHANGED <<fatal, exit_code>>
    /\ UNCHANGED <<cfgVars, futures, yielded, results, completed, log, aggVars>>

\* One executor.submit of the dict comprehension building futures.
MainSubmit ==
    /\ pc = "submit"
    /\ mode = "density"
    /\ LET units == Enumerated(nframes)
           k == Len(futures) + 1
       IN /\ k <= Len(units)
          /\ futures' = Append(futures, NewFuture(units[k], units[k]))
          /\ pc' = IF k = Len(units) THEN "collect" ELSE "submit"
    /\ UNCHANGED <<cfgVars, yielded, results, completed, log, fatal, aggVars, exit_code>>

\* print(f"Error processing {path.name}: {e}")
MainFailureReport(path) == [msg |-> "Error processing", name |-> path]

\* One iteration of `for future in as_completed(futures)`.
MainCollect(k) ==
    /\ pc = "collect"
    /\ mode = "density"
    /\ k \in 1..Len(futures)
    /\ k \notin Range(yielded)
    /\ futures[k].state = "finished"
    /\ yielded' = Append(yielded, k)
    /\ LET path == futures[k].key.path
       IN IF futures[k].outcome = "ok"
          THEN /\ results' = Append(results, futures[k].value)
               /\ UNCHANGED log
          ELSE /\ log' = Append(log, MainFailureReport(path))
               /\ UNCHANGED results
    /\ UNCHANGED <<cfgVars, pc, futures, completed, fatal, aggVars, exit_code>>

\* MainEndCollect leaving the loop once a first future has been yielded.
MainEndCollectAfterFirst ==
    /\ pc = "collect"
    /\ mode = "density"
    /\ yielded # <<>>
    /\ pc' = "sort"
    /\ UNCHANGED <<cfgVars, futures, yielded, results, completed, log, fatal, aggVars, exit_code>>

\* MainEndCollect leaving the loop only once every unit has given a result.
MainEndCollectAllResults ==
    /\ pc = "collect"
    /\ mode = "density"
    /\ Len(results) = Len(futures)
    /\ pc' = "sort"
    /\ UNCHANGED <<cfgVars, futures, yielded, results, completed, log, fatal, aggVars, exit_code>>

\* as_completed is exhausted; the with block ends (every future is finished).
MainEndCollect ==
    /\ pc = "collect"
    /\ mode = "density"
    /\ Range(yielded) = 1..Len(futures)
    /\ pc' = "sort"
    /\ UNCHANGED <<cfgVars, futures, yielded, results, completed, log, fatal, aggVars, exit_code>>

\* results.sort(key=lambda r: r["idx"]) and the entry of compute_deltas
\* (deltas = [0.0], the loop starts at i = 1).
MainSort ==
    /\ pc = "sort"
    /\ mode = "density"
    /\ results' = SortByIndex(results)
    /\ deltas' = <<0>>
    /\ i' = 1
    /\ pc' = "deltas"
    /\ UNCHANGED <<cfgVars, futures, yielded, completed, log, fatal, warnings,
                   rockets, explosions, corr, lags, best_lag, exit_code>>

\* ------------------------------------------------ main.py : compute_deltas
\* DimensionMismatch with `and` in place of `or`.
DimensionMismatchBothAxes(prev, curr) ==
    /\ Abs(prev.h - curr.h) > DIM_TOLERANCE
    /\ Abs(prev.w - curr.w) > DIM_TOLERANCE

\* abs(prev.shape[0] - curr.shape[0]) > 50 or abs(prev.shape[1] - curr.shape[1]) > 50
DimensionMismatch(prev, curr) ==
    \/ Abs(prev.h - curr.h) > DIM_TOLERANCE
    \/ Abs(prev.w - curr.w) > DIM_TOLERANCE

\* Whether numpy can broadcast curr - prev: on each image axis the lengths
\* are equal or one of them is 1 (the channel axis is NChan on both sides).
Broadcastable(prev, curr) ==
    /\ (prev.h = curr.h \/ prev.h = 1 \/ curr.h = 1)
    /\ (prev.w = curr.w \/ prev.w = 1 \/ curr.w = 1)

\* MeanAbsDiff with curr + prev in place of curr - prev.
MeanAbsSum(prev, curr) ==
    SumSeq([c \in 1..NChan |-> Abs(curr.rgb[c] + prev.rgb[c])])

\* np.mean(np.abs(curr - prev)) as a numerator over NChan: every pixel of
\* the broadcast difference holds the same NChan channel differences.
MeanAbsDiff(prev, curr) ==
    SumSeq([c \in 1..NChan |-> Abs(curr.rgb[c] - prev.rgb[c])])

\* print("Skipping delta for frames {i - 1} and {i} (dimension mismatch)")
MismatchWarning(k) == [msg |-> "Skipping delta", prev |-> k - 1, curr |-> k]

\* One iteration of `for i in range(1, len(results))`.
DeltaStep ==
    /\ pc = "deltas"
    /\ i < Len(results)
    /\ LET prev == results[i].img_data
           curr == results[i + 1].img_data
       IN IF DimensionMismatch(prev, curr)
          THEN /\ warnings' = Append(warnings, MismatchWarning(i))
               /\ deltas' = Append(deltas, 0)
               /\ i' = i + 1
               /\ UNCHANGED <<pc, fatal, exit_code>>
          ELSE IF ~Broadcastable(prev, curr)
          THEN /\ Crash("ValueError")
               /\ UNCHANGED <<warnings, deltas, i>>
          ELSE /\ deltas' = Append(deltas, MeanAbsDiff(prev, curr))
               /\ i' = i + 1
               /\ UNCHANGED <<warnings, pc, fatal, exit_code>>
    /\ UNCHANGED <<cfgVars, futures, yielded, results, completed, log,
                   rockets, explosions, corr, lags, best_lag>>

\* return deltas ; the alert loop of main starts at i = 0.
DeltaReturn ==
    /\ pc = "deltas"
    /\ i >= Len(results)
    /\ pc' = "alerts"
    /\ i' = 0
    /\ UNCHANGED <<cfgVars, futures, yielded, results, completed, log, fatal, deltas,
                   warnings, rockets, explosions, corr, lags, best_lag, exit_code>>


\* ------------------------------------------------ main.py : the alert loop
DensityAlert == "Density out of bounds!"
DeltaAlert == " Delta too high!"

\* AlertFor with inclusive comparisons.
AlertForInclusive(density, d) ==
    (IF density <= PARTICLE_DENSITY_MIN \/ density >= PARTICLE_DENSITY_MAX
     THEN <<DensityAlert>> ELSE <<>>)
    \o (IF d >= DELTA_MAX * NChan THEN <<DeltaAlert>> ELSE <<>>)

\* AlertFor testing the delta only when the density is inside the band.
AlertForExclusive(density, d) ==
    IF density < PARTICLE_DENSITY_MIN \/ density > PARTICLE_DENSITY_MAX
    THEN <<DensityAlert>>
    ELSE IF d > DELTA_MAX * NChan THEN <<DeltaAlert>> ELSE <<>>

\* The alert string built for one frame, as the sequence of the messages
\* concatenated into it; d is a delta numerator over NChan.
AlertFor(density, d) ==
    (IF density < PARTICLE_DENSITY_MIN \/ density > PARTICLE_DENSITY_MAX
     THEN <<DensityAlert>> ELSE <<>>)
    \o (IF d > DELTA_MAX * NChan THEN <<DeltaAlert>> ELSE <<>>)

\* One iteration of `for i, d in enumerate(deltas)`: results[i] raises
\* IndexError when deltas is longer than results.
AlertStep ==
    /\ pc = "alerts"
    /\ i < Len(deltas)
    /\ IF i + 1 > Len(results)
       THEN /\ Crash("IndexError")
            /\ UNCHANGED <<results, i>>
       ELSE /\ LET d == deltas[i + 1]
                   r == results[i + 1]
               IN results' = [results EXCEPT ![i + 1] =
                     [delta |-> d, alert |-> AlertFor(r.density, d)] @@ r]
            /\ i' = i + 1
            /\ UNCHANGED <<pc, fatal, exit_code>>
    /\ UNCHANGED <<cfgVars, futures, yielded, completed, log, deltas, warnings,
                   rockets, explosions, corr, lags, best_lag>>

\* extract_series(results): the two event-count series handed to plot_graphs.
ExtractSeries ==
    /\ pc = "alerts"
    /\ i >= Len(deltas)
    /\ explosions' = [k \in 1..Len(results) |-> results[k].num_circles]
    /\ rockets' = [k \in 1..Len(results) |-> results[k].num_lines]
    /\ pc' = "plot"
    /\ UNCHANGED <<cfgVars, futures, yielded, results, completed, log, fatal, deltas,
                   i, warnings, corr, lags, best_lag, exit_code>>

\* ------------------------------------ main.py : plot_graphs, correlation
\* s - np.mean(s), scaled by len(s) to stay in the integers.
Centered(s) == [k \in 1..Len(s) |-> Len(s) * s[k] - SumSeq(s)]

\* np.correlate(a, v, mode="full")[j - 1] for equal lengths n: the sum of
\* a[m + lag] * v[m] over the overlap, lag = j - n.
CorrAt(a, v, j) ==
    LET n == Len(a)
        lag == j - n
        ms == {m \in 1..n : m + lag \in 1..n}
    IN SumSeq([q \in 1..n |-> IF q \in ms THEN a[q + lag] * v[q] ELSE 0])

Correlate(a, v) == [j \in 1..(2 * Len(a) - 1) |-> CorrAt(a, v, j)]

\* np.arange(-n + 1, n)
Lags(n) == [j \in 1..(2 * n - 1) |-> j - n]

\* The last position holding the maximum.
ArgMaxLast(c) ==
    CHOOSE j \in 1..Len(c) :
        /\ \A q \in 1..Len(c) : c[q] <= c[j]
        /\ \A q \in (j + 1)..Len(c) : c[q] < c[j]

\* np.argmax(c) + 1: the first position holding the maximum.
ArgMax(c) ==
    CHOOSE j \in 1..Len(c) :
        /\ \A q \in 1..Len(c) : c[q] <= c[j]
        /\ \A q \in 1..(j - 1) : c[q] < c[j]

\* The cross-correlation block of plot_graphs; np.correlate raises
\* ValueError on empty series.
PlotGraphs ==
    /\ pc = "plot"
    /\ IF Len(rockets) = 0
       THEN /\ Crash("ValueError")
            /\ UNCHANGED <<corr, lags, best_lag>>
       ELSE /\ LET c == Correlate(Centered(rockets), Centered(explosions))
                   l == Lags(Len(rockets))
               IN /\ corr' = c
                  /\ lags' = l
                  /\ best_lag' = l[ArgMax(c)]
            /\ pc' = "report"
            /\ UNCHANGED <<fatal, exit_code>>
    /\ UNCHANGED <<cfgVars, futures, yielded, results, completed, log, deltas, i,
                   warnings, rockets, explosions>>

\* generate_html_report, then main returns.
GenerateHtmlReport ==
    /\ pc = "report"
    /\ pc' = "exited"
    /\ exit_code' = 0
    /\ UNCHANGED <<cfgVars, futures, yielded, results, completed, log, fatal, aggVars>>

\* ---------------------------------------------------------- specifications
Aggregate ==
    \/ DeltaStep
    \/ DeltaReturn
    \/ AlertStep
    \/ ExtractSeries
    \/ PlotGraphs
    \/ GenerateHtmlReport

Next ==
    \/ FlowListFrames
    \/ FlowSubmit
    \/ \E k \in 1..MaxFrames : WorkerStart(k)
    \/ \E k \in 1..MaxFrames : WorkerReturn(k)
    \/ \E k \in 1..MaxFrames : WorkerRaise(k)
    \/ \E k \in 1..MaxFrames : FlowCollect(k)
    \/ FlowEndCollect
    \/ FlowPoolShutdown
    \/ FlowSort
    \/ ComputeAccelerations
    \/ CliExit
    \/ MainListFrames
    \/ MainSubmit
    \/ \E k \in 1..MaxFrames : MainCollect(k)
    \/ MainEndCollect
    \/ MainSort
    \/ Aggregate

\* Both pipelines, from the start of the process.
Spec == Init /\ [][Next]_vars

\* The steps of the dispatcher (the main process).
Dispatcher ==
    \/ FlowListFrames
    \/ FlowSubmit
    \/ \E k \in 1..MaxFrames : FlowCollect(k)
    \/ FlowEndCollect
    \/ FlowPoolShutdown
    \/ FlowSort
    \/ MainListFrames
    \/ MainSubmit
    \/ \E k \in 1..MaxFrames : MainCollect(k)
    \/ MainEndCollect
    \/ MainSort

\* A free pool process takes the next work item.
Schedule == \E k \in 1..MaxFrames : WorkerStart(k)

\* A unit computation completes: it returns or raises.
Complete == \E k \in 1..MaxFrames : WorkerReturn(k) \/ WorkerRaise(k)

\* Both pipelines, the main process running, the pool scheduled fairly and
\* every unit computation completing.
SpecFair ==
    Init /\ [][Next]_vars /\ WF_vars(Dispatcher) /\ WF_vars(Schedule) /\ WF_vars(Complete)

\* ------------------------------------------- aggregation on richer inputs
\* The elements of the finite set of integers S, in increasing order.
RECURSIVE Ascending(_)
Ascending(S) ==
    IF S = {} THEN <<>>
    ELSE LET m == CHOOSE x \in S : \A y \in S : x <= y
         IN <<m>> \o Ascending(S \ {m})

\* The state main is in right after MainSort when it ran on n files, the
\* units of ok returned, unit k decoding payload[k], and the others raised.
AfterMainSort(n, ok, payload) ==
    /\ mode = "density"
    /\ nframes = n
    /\ max_workers = 0
    /\ fps = 0
    /\ pc = "deltas"
    /\ futures = [k \in 1..n |->
          [key |-> Enumerated(n)[k], arg |-> Enumerated(n)[k], state |-> "finished",
           outcome |-> IF k \in ok THEN "ok" ELSE "exc",
           value |-> IF k \in ok
                     THEN ProcessImageResult(k, k - 1, payload[k].img,
                                             payload[k].nc, payload[k].nl)
                     ELSE <<>>]]
    /\ yielded = [k \in 1..n |-> k]
    /\ results = [j \in 1..Cardinality(ok) |->
          LET k == Ascending(ok)[j]
          IN ProcessImageResult(k, k - 1, payload[k].img, payload[k].nc, payload[k].nl)]
    /\ completed = 0
    /\ log = [j \in 1..(n - Cardinality(ok)) |->
          MainFailureReport(Ascending((1..n) \ ok)[j] - 1)]
    /\ fatal = "none"
    /\ deltas = <<0>>
    /\ i = 1
    /\ warnings = <<>>
    /\ rockets = <<>>
    /\ explosions = <<>>
    /\ corr = <<>>
    /\ lags = <<>>
    /\ best_lag = 0
    /\ exit_code = -1

\* compute_deltas and the alert loop on every image of Images.
InitAggregate ==
    \E n \in 1..MaxResults : \E ok \in SUBSET (1..n) :
        \E payload \in [ok -> {[img |-> im, nc |-> 0, nl |-> 0] : im \in Images}] :
            AfterMainSort(n, ok, payload)

SpecAggregate == InitAggregate /\ [][Aggregate]_vars

\* The cross-correlation on every pair of event-count series.
InitSeries ==
    \E n \in 1..MaxLen :
        \E payload \in [1..n -> {[img |-> Img(50, 100, <<20, 10, 10>>), nc |-> c, nl |-> l] :
                                   c \in 0..MaxCount, l \in 0..MaxCount}] :
            AfterMainSort(n, 1..n, payload)

SpecSeries == InitSeries /\ [][Aggregate]_vars

\* The state cli is in right after FlowSort when it ran on n files at frame
\* rate `rate` and unit k returned the speed sp[k].
AfterFlowSort(n, sp, rate) ==
    /\ mode = "flow"
    /\ nframes = n
    /\ max_workers = 0
    /\ fps = rate
    /\ pc = "accel"
    /\ futures = [k \in 1..(n - 1) |->
          [key |-> TasksArgs(n)[k].index, arg |-> TasksArgs(n)[k], state |-> "finished",
           outcome |-> "ok", value |-> FlowResult(TasksArgs(n)[k], sp[k])]]
    /\ yielded = [k \in 1..(n - 1) |-> k]
    /\ results = [k \in 1..(n - 1) |->
          FramePairResult(k - 1, sp[k], AnnotatedPath(k - 1))]
    /\ completed = n - 1
    /\ log = <<>>
    /\ fatal = "none"
    /\ deltas = <<>>
    /\ i = 0
    /\ warnings = <<>>
    /\ rockets = <<>>
    /\ explosions = <<>>
    /\ corr = <<>>
    /\ lags = <<>>
    /\ best_lag = 0
    /\ exit_code = -1

\* compute_accelerations and the exit code on every speed series.
InitAccelerations ==
    \E m \in 1..MaxSpeeds : \E sp \in [1..m -> Speeds] : \E rate \in FrameRates :
        AfterFlowSort(m + 1, sp, rate)

FlowAggregate ==
    \/ ComputeAccelerations
    \/ CliExit

SpecAccelerations == InitAccelerations /\ [][FlowAggregate]_vars

\* Unit indices on both sides of the padding widths.
IndexSamples == {0, 1, 9, 10, 11, 99, 100, 101, 110, 999, 1000, 1001, 1010, 1100}

\* Two units a < b of one long run of pipeline m, both being computed by
\* pool workers (the other futures of the run are left out).
InitArtifacts ==
    \E m \in {"flow", "density"} : \E a \in IndexSamples : \E b \in IndexSamples :
        /\ a < b
        /\ (m = "density" => a >= 1)
        /\ mode = m
        /\ nframes = b + 2
        /\ max_workers = 0
        /\ fps = IF m = "flow" THEN 60 ELSE 0
        /\ pc = "collect"
        /\ futures = [k \in 1..2 |->
              LET u == IF k = 1 THEN a ELSE b
                  arg == IF m = "flow" THEN [index |-> u, prev |-> u, curr |-> u + 1]
                         ELSE [idx |-> u, path |-> u - 1]
              IN [NewFuture(IF m = "flow" THEN u ELSE arg, arg) EXCEPT !.state = "running"]]
        /\ yielded = <<>>
        /\ results = <<>>
        /\ completed = 0
        /\ log = <<>>
        /\ fatal = "none"
        /\ deltas = <<>>
        /\ i = 0
        /\ warnings = <<>>
        /\ rockets = <<>>
        /\ explosions = <<>>
        /\ corr = <<>>
        /\ lags = <<>>
        /\ best_lag = 0
        /\ exit_code = -1

Workers ==
    \/ \E k \in 1..2 : WorkerReturn(k)
    \/ \E k \in 1..2 : WorkerRaise(k)

\* The artifact names chosen by two concurrent workers.
SpecArtifacts == InitArtifacts /\ [][Workers]_vars

\* ================================================================== claims
\* The units the run submits, as the indices they are known by.
UnitIndices ==
    IF mode = "flow" THEN {TasksArgs(nframes)[k].index : k \in 1..(nframes - 1)}
    ELSE {Enumerated(nframes)[k].idx : k \in 1..nframes}

\* The main process is past the sort step.
PastSort ==
    \/ pc \in {"accel", "summary", "deltas", "alerts", "plot", "report", "exited"}
    \/ pc = "fatal" /\ fatal \in {"ValueError", "IndexError"}

\* The aggregation stage (compute_accelerations, compute_deltas and what
\* follows them) has been entered.
InAggregation == PastSort

AllSucceeded ==
    /\ Len(futures) = Cardinality(UnitIndices)
    /\ \A k \in 1..Len(futures) : futures[k].outcome = "ok"

SomeFailed == \E k \in 1..Len(futures) : futures[k].outcome = "exc"

\* C1: in both pipelines, when every unit computation succeeds, the result
\* list after the sort step has exactly one entry per submitted unit, in
\* strictly increasing contiguous index order (0..n-1 in process_all_frames,
\* 1..n in main), whatever the order in which the workers completed.
C1_OrderedResultSet ==
    (PastSort /\ AllSucceeded) =>
        LET first == IF mode = "flow" THEN 0 ELSE 1
        IN /\ Len(results) = Cardinality(UnitIndices)
           /\ \A j \in 1..Len(results) : KeyOf(results[j]) = first + j - 1

\* C1 witness: three units were collected in an order that is not the index
\* order, all succeeded, and the sort step has run.
C1_Witness ==
    /\ PastSort
    /\ AllSucceeded
    /\ Len(yielded) = 3
    /\ yielded[1] = 3
    /\ yielded[2] = 1

\* C2: in both pipelines a failed unit computation ends the run with a fatal
\* error, and the aggregation stage is never run on a partial result set.
C2_NoPartialAggregation == SomeFailed => ~InAggregation

\* C3: the aggregation stage starts only after every submitted unit has
\* finished: while it runs, every unit has been submitted and no future is
\* pending or running.
C3_CollectionBarrier ==
    (InAggregation \/ pc = "sort") =>
        /\ Len(futures) = Cardinality(UnitIndices)
        /\ Unfinished = {}

\* C3 witness: compute_deltas is running on the results of three units, one
\* of which was collected before a lower-indexed one.
C3_Witness ==
    /\ pc = "deltas"
    /\ Len(futures) = 3
    /\ Len(results) = 3
    /\ yielded[1] = 2

\* C4: every failure report names the index of exactly the unit whose
\* computation failed, and it has been emitted by the time the error
\* propagates out of the dispatcher.
C4_FailureReportNamesIndex ==
    /\ \A j \in 1..Len(log) :
          /\ "index" \in DOMAIN log[j]
          /\ \E k \in 1..Len(futures) :
                /\ futures[k].outcome = "exc"
                /\ futures[k].arg.index = log[j].index
    /\ (pc = "raising" \/ (pc = "fatal" /\ fatal = "WorkerError")) => Len(log) >= 1

\* C5: with fewer input frames than the pipeline needs (2 for the pairwise
\* flow pipeline, 1 for the per-frame density pipeline) the run stops with a
\* fatal error before any unit is submitted to the pool.
C5_EmptyInputIsFatal ==
    LET minimum == IF mode = "flow" THEN 2 ELSE 1
    IN nframes < minimum =>
          /\ futures = <<>>
          /\ pc \in {"start", "fatal"}
          /\ pc = "fatal" => (fatal \in {"FileNotFoundError", "RuntimeError", "SystemExit"}
                              /\ exit_code = 1)

\* C5 witness: the flow pipeline found a single frame and has stopped.
C5_Witness ==
    /\ mode = "flow"
    /\ nframes = 1
    /\ pc = "fatal"
    /\ futures = <<>>

\* The alert loop has stored delta and alert on results[j].
Alerted(j) == j \in 1..Len(results) /\ "alert" \in DOMAIN results[j]

\* C6: in the density pipeline the alert of a frame is non-empty exactly
\* when density < min or density > max or delta > ceiling, the comparisons
\* being strict; and the densities [50000, 3000, 50000] with deltas not above
\* the ceiling alert on index 1 only.
C6_AlertIffStrictlyOutside ==
    /\ \A j \in 1..Len(results) :
          Alerted(j) =>
             LET r == results[j]
             IN /\ r.delta = deltas[j]
                /\ (r.alert # <<>>) <=>
                      \/ r.density < PARTICLE_DENSITY_MIN
                      \/ r.density > PARTICLE_DENSITY_MAX
                      \/ r.delta > DELTA_MAX * NChan
    /\ ( /\ Len(results) = 3
         /\ \A j \in 1..3 : Alerted(j) /\ results[j].delta <= DELTA_MAX * NChan
         /\ results[1].density = 50000
         /\ results[2].density = 3000
         /\ results[3].density = 50000 )
       => /\ results[1].alert = <<>>
          /\ results[2].alert # <<>>
          /\ results[3].alert = <<>>

\* C6 witness: three frames sit exactly on the three boundaries (density =
\* min, delta = ceiling, density = max) and none of them is alerted.
C6_Witness ==
    /\ Len(results) = 3
    /\ \A j \in 1..3 : Alerted(j) /\ results[j].alert = <<>>
    /\ results[1].density = PARTICLE_DENSITY_MIN
    /\ results[2].delta = DELTA_MAX * NChan
    /\ results[3].density = PARTICLE_DENSITY_MAX

\* C7: for two identical event-count series of any length (constant series
\* included) the best lag reported by the cross-correlation is 0.
C7_IdenticalSeriesLagZero ==
    (pc \in {"report", "exited"} /\ rockets = explosions) => best_lag = 0

\* C8: a dimension mismatch between consecutive frames never halts the
\* pipeline: compute_deltas never raises and returns a delta for every
\* index, whatever the size of the difference.
C8_MismatchNeverRaises ==
    /\ ~(pc = "fatal" /\ fatal = "ValueError")
    /\ pc \in {"alerts", "plot", "report", "exited"} => Len(deltas) >= Len(results)

\* Frames i - 1 and i (Python indices) differ by more than 50 pixels in
\* height or in width.
BeyondTolerance(j) ==
    \/ Abs(results[j].img_data.h - results[j + 1].img_data.h) > 50
    \/ Abs(results[j].img_data.w - results[j + 1].img_data.w) > 50

\* C9: in compute_deltas, when two consecutive frames differ by more than 50
\* pixels in height or in width, the delta of that index is exactly 0, a
\* warning naming the pair is emitted, no error is raised for that pair, and
\* the deltas of the following indices are still computed.
C9_ToleranceExceededGivesZero ==
    /\ \A j \in 1..(Len(deltas) - 1) :
          (j < Len(results) /\ BeyondTolerance(j)) =>
             /\ deltas[j + 1] = 0
             /\ \E q \in 1..Len(warnings) : warnings[q].prev = j - 1 /\ warnings[q].curr = j
    /\ (pc = "fatal" /\ fatal = "ValueError") => ~BeyondTolerance(i)
    /\ (pc \in {"alerts", "plot", "report", "exited"} /\ warnings # <<>>) =>
          Len(deltas) = Len(results)

\* C9 witness: the first pair was skipped with a warning and the delta of
\* the next pair, whose frames differ, has been computed after it.
C9_Witness ==
    /\ Len(results) = 3
    /\ Len(deltas) = 3
    /\ BeyondTolerance(1)
    /\ warnings # <<>>
    /\ deltas[2] = 0
    /\ deltas[3] > 0
    /\ fatal = "none"

\* C10: the delta series has 0 at its first position, and the delta of any
\* position whose frame has pixel data identical to the previous frame's is 0.
C10_ZeroDeltas ==
    /\ deltas # <<>> => deltas[1] = 0
    /\ \A j \in 2..Len(deltas) :
          (j <= Len(results) /\ results[j].img_data = results[j - 1].img_data) =>
             deltas[j] = 0

\* C10 witness: a non-black frame is followed by an identical one and by a
\* different one: the first two deltas are 0, the third is not.
C10_Witness ==
    /\ Len(results) = 3
    /\ Len(deltas) = 3
    /\ results[1].density > 0
    /\ results[2].img_data = results[1].img_data
    /\ deltas[2] = 0
    /\ deltas[3] > 0

\* compute_accelerations has filled the accel fields.
Accelerated == mode = "flow" /\ pc \in {"summary", "exited"}

\* C11: compute_accelerations sets every acceleration to 0 when the result
\* list has fewer than 2 entries, and when the speed series is constant with
\* length >= 2, for any frame rate; 3 frames with zero displacement give
\* speeds [0, 0] and accelerations [0, 0].
C11_ZeroAccelerations ==
    Accelerated =>
        /\ Len(results) < 2 => \A k \in 1..Len(results) : results[k].accel = <<0>>
        /\ (\A k \in 1..Len(results) : results[k].speed = results[1].speed) =>
              \A k \in 1..Len(results) : results[k].accel = <<0>>
        /\ (nframes = 3 /\ \A k \in 1..Len(results) : results[k].speed = 0) =>
              /\ Len(results) = 2
              /\ results[1].accel = <<0>>
              /\ results[2].accel = <<0>>

\* C11 witness: three pairs moved at the same non-zero speed at 60 fps and
\* their accelerations have been computed.
C11_Witness ==
    /\ Accelerated
    /\ Len(results) = 3
    /\ fps = 60
    /\ \A k \in 1..3 : results[k].speed = 20 /\ results[k].accel = <<0>>

\* C20: for a speed series s of length m >= 2 and frame rate fps,
\* accel[0] = (s[1] - s[0]) * fps, accel[m-1] = (s[m-1] - s[m-2]) * fps and
\* accel[i] = ((s[i+1] - s[i-1]) / 2) * fps inside (accel fields hold the
\* numerators over 2).
C20_GradientTimesFps ==
    (Accelerated /\ Len(results) >= 2) =>
        LET m == Len(results)
        IN /\ results[1].accel = <<2 * (results[2].speed - results[1].speed) * fps>>
           /\ results[m].accel = <<2 * (results[m].speed - results[m - 1].speed) * fps>>
           /\ \A k \in 2..(m - 1) :
                 results[k].accel = <<(results[k + 1].speed - results[k - 1].speed) * fps>>

\* C20 witness: the speeds 0, 0.05, 0.20 at 60 fps: the interior point holds
\* the central difference (0.20 - 0) / 2 * 60.
C20_Witness ==
    /\ Accelerated
    /\ Len(results) = 3
    /\ fps = 60
    /\ results[1].speed = 0
    /\ results[2].speed = 5
    /\ results[3].speed = 20
    /\ results[2].accel = <<1200>>

\* C12: every derived series is aligned 1:1 with the ordered result list,
\* the empty list included: compute_deltas returns as many deltas as there
\* are results, so attaching delta i to result i never addresses a missing
\* result; and after compute_accelerations every result has a non-null accel.
C12_SeriesAligned ==
    /\ (mode = "density" /\ pc \in {"alerts", "plot", "report", "exited"}) =>
          Len(deltas) = Len(results)
    /\ ~(pc = "fatal" /\ fatal = "IndexError")
    /\ Accelerated => \A k \in 1..Len(results) : results[k].accel # <<>>

\* The artifact files written by the worker whose future k returned.
ArtifactsOf(k) ==
    IF mode = "flow" THEN {<<"annotated", futures[k].value.annotated_path>>}
    ELSE {<<"heatmaps", futures[k].value.heatmap>>,
          <<"explosions_fusees", futures[k].value.explosions_fusees>>}

\* C13: any two distinct units of one run write their artifact files to
\* distinct paths (annotated_<index>; heatmap_<idx> and ef_<idx>), also when
\* an index has more digits than the zero-padding width.
C13_DisjointArtifactPaths ==
    \A k \in 1..Len(futures) : \A l \in 1..Len(futures) :
        (k # l /\ futures[k].outcome = "ok" /\ futures[l].outcome = "ok") =>
            ArtifactsOf(k) \cap ArtifactsOf(l) = {}

\* C13 witness: units 1 and 101 of the density pipeline have both written
\* their files; the index 101 is wider than the two-digit padding.
C13_Witness ==
    /\ mode = "density"
    /\ Len(futures) = 2
    /\ futures[1].outcome = "ok"
    /\ futures[2].outcome = "ok"
    /\ futures[1].value.idx = 1
    /\ futures[2].value.idx = 101
    /\ futures[1].value.heatmap.digits = <<0, 1>>
    /\ futures[2].value.heatmap.digits = <<1, 0, 1>>

\* The dispatcher has left the submission loop of a run that has units.
AllSubmitted == pc \notin {"start", "submit"} /\ futures # <<>>

\* C14: for n >= 2 sorted frames process_all_frames creates exactly n-1
\* units and unit i references frame i as previous and frame i+1 as current,
\* for i in 0..n-2; in the density pipeline each of the n frames is
\* referenced by exactly one unit.
C14_UnitsCoverFrames ==
    AllSubmitted =>
        /\ (mode = "flow" /\ nframes >= 2) =>
              /\ Len(futures) = nframes - 1
              /\ \A u \in 0..(nframes - 2) :
                    /\ futures[u + 1].arg.index = u
                    /\ futures[u + 1].arg.prev = u
                    /\ futures[u + 1].arg.curr = u + 1
        /\ mode = "density" =>
              \A f \in 0..(nframes - 1) :
                  Cardinality({k \in 1..Len(futures) : futures[k].arg.path = f}) = 1

\* C14 witness: three frames have been turned into the two units of the flow
\* pipeline, and all are submitted.
C14_Witness ==
    /\ mode = "flow"
    /\ nframes = 3
    /\ pc = "collect"
    /\ Len(futures) = 2
    /\ futures[2].arg.curr = 2

\* The number of units of the run.
UnitCount == IF mode = "flow" THEN nframes - 1 ELSE nframes

\* C15: every unit is submitted to the pool before the dispatcher starts
\* waiting for any result, and the submission of a unit never depends on the
\* completion of an earlier unit, in both pipelines: while units remain to be
\* submitted the next submission can be taken whatever the state of the
\* futures already submitted.
C15_SubmissionNeverBlocks ==
    /\ (pc \in {"collect", "raising"} \/ yielded # <<>>) => Len(futures) = UnitCount
    /\ pc = "submit" => ENABLED (FlowSubmit \/ MainSubmit)

\* C15 witness: the second of two units has been submitted while the first
\* is still being computed; the dispatcher starts waiting with both submitted.
C15_Witness ==
    /\ mode = "flow"
    /\ nframes = 3
    /\ pc = "collect"
    /\ Len(futures) = 2
    /\ futures[1].state = "running"
    /\ futures[2].state = "pending"
    /\ yielded = <<>>

\* The concurrency bound W of the run: the configured worker count when one
\* is given (only the flow pipeline has the option), else the number of cores.
W == IF mode = "flow" /\ max_workers > 0 THEN max_workers ELSE NumCores

\* C16: at every moment the number of unit computations in flight is at most
\* W, the configured worker count when one is given and the number of
\* available cores otherwise.
C16_InFlightBounded ==
    Cardinality({k \in 1..Len(futures) : futures[k].state = "running"}) <= W

\* C16 witness: with --workers 1 on a machine with more cores one unit is
\* being computed while another one waits for the worker.
C16_Witness ==
    /\ mode = "flow"
    /\ max_workers = 1
    /\ max_workers < NumCores
    /\ Len(futures) = 2
    /\ futures[1].state = "pending"
    /\ futures[2].state = "running"

\* C17: every unit is submitted exactly once per run: no two futures are for
\* the same unit (so a failed unit is never submitted again), no future is
\* collected twice, and no unit has more than one entry in the result list.
C17_SubmittedExactlyOnce ==
    /\ Len(futures) <= Max2(UnitCount, 0)
    /\ \A k \in 1..Len(futures) : \A l \in 1..Len(futures) :
          k # l => futures[k].arg # futures[l].arg
    /\ \A a \in 1..Len(yielded) : \A b \in 1..Len(yielded) :
          a # b => yielded[a] # yielded[b]
    /\ \A a \in 1..Len(results) : \A b \in 1..Len(results) :
          a # b => KeyOf(results[a]) # KeyOf(results[b])
    /\ AllSubmitted => Len(futures) = UnitCount

\* C17 witness: the first of two units failed after the result of the second
\* was collected; the run ended with two futures in all and one result.
C17_Witness ==
    /\ mode = "flow"
    /\ pc = "fatal"
    /\ fatal = "WorkerError"
    /\ Len(futures) = 2
    /\ futures[1].outcome = "exc"
    /\ futures[2].outcome = "ok"
    /\ yielded = <<2, 1>>
    /\ Len(results) = 1
    /\ results[1].index = 1

\* The index recorded by the dispatcher for future k (future_to_idx[fut] in
\* process_all_frames, futures[future][0] in main).
RecordedIndex(k) == IF mode = "flow" THEN futures[k].key ELSE futures[k].key.idx

\* The futures yielded so far that returned a value, in the order yielded.
YieldedOk == SelectSeq(yielded, LAMBDA k : futures[k].outcome = "ok")

\* C18: the index carried by every collected result equals the index of the
\* unit that produced it: the index returned by a worker equals the index
\* recorded for its future, and the result list holds exactly the recorded
\* indices of the collected futures that returned.
C18_ResultIndexIsUnitIndex ==
    /\ \A k \in 1..Len(futures) :
          futures[k].outcome = "ok" =>
              /\ KeyOf(futures[k].value) = RecordedIndex(k)
              /\ KeyOf(futures[k].value) = KeyOf(futures[k].arg)
    /\ Len(results) = Len(YieldedOk)
    /\ pc \in {"collect", "raising"} =>
          \A a \in 1..Len(results) : KeyOf(results[a]) = RecordedIndex(YieldedOk[a])
    /\ {KeyOf(results[a]) : a \in 1..Len(results)}
          = {RecordedIndex(YieldedOk[a]) : a \in 1..Len(YieldedOk)}

\* C18 witness: in the density pipeline the third frame was collected before
\* the first, and each result carries the idx recorded for its future.
C18_Witness ==
    /\ mode = "density"
    /\ pc = "collect"
    /\ yielded = <<3, 1>>
    /\ Len(results) = 2
    /\ results[1].idx = 3
    /\ results[2].idx = 1
    /\ futures[3].key.idx = 3

\* The dispatcher is before or inside its collection loop.
InCollection == pc \in {"start", "submit", "collect", "raising"}

\* C19: if every unit computation eventually completes and the pool is
\* scheduled fairly, every run of either pipeline eventually leaves the
\* collection loop: it reaches the sort/aggregation step or a fatal error.
C19_CollectionTerminates == <>(~InCollection)

\* C19 witness: a run of three units, one of which failed, has waited for
\* all of them and left the collection loop.
C19_Witness ==
    /\ mode = "density"
    /\ pc = "sort"
    /\ Len(yielded) = 3
    /\ Len(results) = 2
    /\ futures[2].outcome = "exc"

\* The cross-correlation block of plot_graphs has run.
Correlated == mode = "density" /\ pc \in {"report", "exited"}

\* The overlap sum of the mean-centered series at one lag, both series scaled
\* by their length n: rockets shifted by lag against explosions.
OverlapSum(lag) ==
    LET n == Len(rockets)
        r == [k \in 1..n |-> n * rockets[k] - SumSeq(rockets)]
        e == [k \in 1..n |-> n * explosions[k] - SumSeq(explosions)]
    IN SumSeq([m \in 1..n |-> IF m + lag \in 1..n THEN r[m + lag] * e[m] ELSE 0])

\* C21: for two equal-length series of length n the cross-correlation step
\* evaluates the mean-centered series at exactly the 2n-1 lags -(n-1)..n-1,
\* and the reported best lag is a lag at which the correlation is maximal
\* over all of those lags, the smallest such lag when there are several.
C21_BestLagIsFirstMaximum ==
    Correlated =>
        LET n == Len(rockets)
        IN /\ Len(explosions) = n
           /\ Len(lags) = 2 * n - 1
           /\ Len(corr) = 2 * n - 1
           /\ \A j \in 1..(2 * n - 1) :
                 /\ lags[j] = j - n
                 /\ corr[j] = OverlapSum(lags[j])
           /\ best_lag \in (1 - n)..(n - 1)
           /\ \A lag \in (1 - n)..(n - 1) : OverlapSum(lag) <= OverlapSum(best_lag)
           /\ \A lag \in (1 - n)..(best_lag - 1) : OverlapSum(lag) < OverlapSum(best_lag)

\* C21 witness: three frames whose correlation attains its maximum at two
\* lags, neither of them the first lag; the smaller one is reported.
C21_Witness ==
    /\ Correlated
    /\ Len(rockets) = 3
    /\ best_lag > -2
    /\ \E lag \in (best_lag + 1)..2 : OverlapSum(lag) = OverlapSum(best_lag)
    /\ OverlapSum(-2) < OverlapSum(best_lag)

\* The density of results[j] is outside the band.
OutOfBand(j) ==
    results[j].density < PARTICLE_DENSITY_MIN \/ results[j].density > PARTICLE_DENSITY_MAX

\* The delta of results[j] exceeds the ceiling.
AboveCeiling(j) == results[j].delta > DELTA_MAX * NChan

\* C22: the density alert and the delta alert are decided independently:
\* the alert of an index holds the density message exactly when its density
\* is outside the band and the delta message exactly when its delta exceeds
\* the ceiling, so both when both conditions hold and only one when only one
\* holds.
C22_AlertsIndependent ==
    \A j \in 1..Len(results) :
        Alerted(j) =>
            /\ (OutOfBand(j) /\ AboveCeiling(j)) => results[j].alert = <<DensityAlert, DeltaAlert>>
            /\ (OutOfBand(j) /\ ~AboveCeiling(j)) => results[j].alert = <<DensityAlert>>
            /\ (~OutOfBand(j) /\ AboveCeiling(j)) => results[j].alert = <<DeltaAlert>>
            /\ (~OutOfBand(j) /\ ~AboveCeiling(j)) => results[j].alert = <<>>

\* C22 witness: of three alerted frames one has only the density out of the
\* band, one has both conditions and both messages, one has only the delta
\* above the ceiling.
C22_Witness ==
    /\ Len(results) = 3
    /\ \A j \in 1..3 : Alerted(j)
    /\ \E a \in 1..3 : OutOfBand(a) /\ AboveCeiling(a)
                       /\ results[a].alert = <<DensityAlert, DeltaAlert>>
    /\ \E b \in 1..3 : OutOfBand(b) /\ ~AboveCeiling(b) /\ results[b].alert = <<DensityAlert>>
    /\ \E c \in 1..3 : ~OutOfBand(c) /\ AboveCeiling(c) /\ results[c].alert = <<DeltaAlert>>

\* C23: in the density pipeline, in every run (runs with failed units
\* included), the delta at result position j > 1 compares the frame of idx k
\* with the frame of idx k - 1, that is the two results compared by
\* compute_deltas are adjacent input frames, and the delta stored on a result
\* is the one computed for that result's own frame.
C23_DeltasCompareAdjacentFrames ==
    (mode = "density" /\ PastSort) =>
        /\ \A j \in 2..Len(deltas) :
              j <= Len(results) =>
                  /\ results[j].idx = results[j - 1].idx + 1
                  /\ deltas[j] = IF DimensionMismatch(results[j - 1].img_data, results[j].img_data)
                                 THEN 0
                                 ELSE MeanAbsDiff(results[j - 1].img_data, results[j].img_data)
        /\ \A j \in 1..Len(results) : Alerted(j) => results[j].delta = deltas[j]

\* The sum of the per-pair speeds of the result list (hundredths of px/frame).
SpeedTotal == SumSeq([k \in 1..Len(results) |-> results[k].speed])

\* C24: when the flow pipeline completes without a unit failure, cli exits
\* with code 1 if and only if the mean of the per-pair speeds is below
\* 0.1 px/frame and with code 0 otherwise; a run whose speeds are all 0
\* exits with code 1.
C24_ExitCodeByMeanSpeed ==
    (mode = "flow" /\ pc = "exited") =>
        /\ Len(results) = nframes - 1
        /\ exit_code \in {0, 1}
        /\ exit_code = 1 <=> SpeedTotal < MIN_MEAN_SPEED * Len(results)
        /\ exit_code = 0 <=> SpeedTotal >= MIN_MEAN_SPEED * Len(results)
        /\ (\A k \in 1..Len(results) : results[k].speed = 0) => exit_code = 1

\* C24 witness: two pairs moved at 0 and 0.20 px/frame; the mean is exactly
\* 0.1, which is not below the threshold, and cli exited with code 0.
C24_Witness ==
    /\ mode = "flow"
    /\ pc = "exited"
    /\ Len(results) = 2
    /\ results[1].speed = 0
    /\ results[2].speed = 20
    /\ exit_code = 0

====
